---- MODULE Spec2Model ----
(***************************************************************************)
(* Model of localchat.py: the SimpleChatbot store of tracked files and     *)
(* lenses, its token budget and its JSON persistence.                      *)
(*                                                                         *)
(* Python strings are sequences of one-character strings, so that path     *)
(* normalisation and prefix tests are computed, not assumed.  A Python     *)
(* dict is a sequence of [k, v] entries with unique keys, in insertion     *)
(* order.                                                                  *)
(***************************************************************************)
EXTENDS Integers, Sequences, FiniteSets, TLC

\* ----------------------------------------------------------------- bounds
MaxSteps == 4

MaxLensSteps == 6

\* ------------------------------------------------------ program constants
TOKEN_LIMIT == 100000
TOKEN_LIMIT_PER_FILE == 20000

\* ------------------------------------------------------------ str helpers
startswith(s, prefix) ==
    /\ Len(prefix) <= Len(s)
    /\ \A i \in 1..Len(prefix) : s[i] = prefix[i]

endswith(s, suffix) ==
    /\ Len(suffix) <= Len(s)
    /\ \A i \in 1..Len(suffix) : s[Len(s) - Len(suffix) + i] = suffix[i]

RECURSIVE SplitFrom(_, _, _, _)
SplitFrom(s, i, cur, acc) ==
    IF i > Len(s) THEN Append(acc, cur)
    ELSE IF s[i] = "/" THEN SplitFrom(s, i + 1, <<>>, Append(acc, cur))
    ELSE SplitFrom(s, i + 1, Append(cur, s[i]), acc)

\* path.split('/')
split(s) == SplitFrom(s, 1, <<>>, <<>>)

RECURSIVE JoinFrom(_, _)
JoinFrom(comps, i) ==
    IF i > Len(comps) THEN <<>>
    ELSE IF i = Len(comps) THEN comps[i]
    ELSE comps[i] \o <<"/">> \o JoinFrom(comps, i + 1)

\* '/'.join(comps)
joinslash(comps) == JoinFrom(comps, 1)

\* ------------------------------------------------------------ dict helpers
KeySeq(d) == [i \in 1..Len(d) |-> d[i].k]
KeySet(d) == {d[i].k : i \in 1..Len(d)}
Has(d, key) == key \in KeySet(d)
Get(d, key) == d[CHOOSE i \in 1..Len(d) : d[i].k = key].v
Put(d, key, val) ==
    IF Has(d, key)
    THEN [i \in 1..Len(d) |-> IF d[i].k = key THEN [k |-> key, v |-> val] ELSE d[i]]
    ELSE Append(d, [k |-> key, v |-> val])
Del(d, key) == SelectSeq(d, LAMBDA e : e.k # key)

RECURSIVE SumFrom(_, _)
SumFrom(d, i) == IF i > Len(d) THEN 0 ELSE d[i].v + SumFrom(d, i + 1)

\* sum(d.values())
SumValues(d) == SumFrom(d, 1)

\* --------------------------------------------------------------- os.path
\* the working directory the process chdir()s to
cwd == <<"/", "w">>

isabs(p) == startswith(p, <<"/">>)

\* os.path.join(a, b)
pathjoin(a, b) ==
    IF isabs(b) THEN b
    ELSE IF a = <<>> \/ endswith(a, <<"/">>) THEN a \o b
    ELSE a \o <<"/">> \o b

RECURSIVE NormComps(_, _, _, _)
NormComps(comps, i, new, initial_slashes) ==
    IF i > Len(comps) THEN new
    ELSE LET comp == comps[i] IN
         IF comp = <<>> \/ comp = <<".">>
         THEN NormComps(comps, i + 1, new, initial_slashes)
         ELSE IF \/ comp # <<".", ".">>
                 \/ (initial_slashes = 0 /\ new = <<>>)
                 \/ (new # <<>> /\ new[Len(new)] = <<".", ".">>)
         THEN NormComps(comps, i + 1, Append(new, comp), initial_slashes)
         ELSE IF new # <<>>
         THEN NormComps(comps, i + 1, SubSeq(new, 1, Len(new) - 1), initial_slashes)
         ELSE NormComps(comps, i + 1, new, initial_slashes)

\* os.path.normpath(path) (posixpath)
normpath(path) ==
    IF path = <<>> THEN <<".">>
    ELSE LET initial_slashes ==
                 IF ~startswith(path, <<"/">>) THEN 0
                 ELSE IF startswith(path, <<"/", "/">>) /\ ~startswith(path, <<"/", "/", "/">>)
                      THEN 2 ELSE 1
             comps == NormComps(split(path), 1, <<>>, initial_slashes)
             joined == joinslash(comps)
             res == IF initial_slashes = 2 THEN <<"/", "/">> \o joined
                    ELSE IF initial_slashes = 1 THEN <<"/">> \o joined
                    ELSE joined
         IN IF res = <<>> THEN <<".">> ELSE res

\* os.path.abspath(path)
abspath(path) == normpath(IF isabs(path) THEN path ELSE pathjoin(cwd, path))

\* ------------------------------------------------------------ file system
\* The tree under the working directory: regular files by absolute path.
f_da == <<"/", "w", "/", "d", "a">>
f_df == <<"/", "w", "/", "d", "/", "f">>
f_dh == <<"/", "w", "/", "d", "/", ".", "h">>
f_dgx == <<"/", "w", "/", "d", "/", ".", "g", "/", "x">>
f_dsg == <<"/", "w", "/", "d", "/", "s", "/", "g">>
Files == {f_da, f_df, f_dh, f_dgx, f_dsg}

\* os.scandir(dir): the names of the sub-directories and of the files
listdir(dir) ==
    IF dir = cwd THEN [dirs |-> << <<"d">> >>, files |-> << <<"d", "a">> >>]
    ELSE IF dir = <<"/", "w", "/", "d">>
    THEN [dirs |-> << <<".", "g">>, <<"s">> >>, files |-> << <<".", "h">>, <<"f">> >>]
    ELSE IF dir = <<"/", "w", "/", "d", "/", ".", "g">> THEN [dirs |-> <<>>, files |-> << <<"x">> >>]
    ELSE IF dir = <<"/", "w", "/", "d", "/", "s">> THEN [dirs |-> <<>>, files |-> << <<"g">> >>]
    ELSE [dirs |-> <<>>, files |-> <<>>]

\* os.path.isfile(filepath)
isfile(filepath) == abspath(filepath) \in Files /\ ~endswith(filepath, <<"/">>)

\* token counts a file's content can have when it is read
Sizes == {20000, 45000}
\* open()/read() raising instead of returning content
ReadFails == -1

\* ----------------------------------------------------------------- output
Msg(m, path, n) == [msg |-> m, path |-> path, n |-> n]

print(self, m, path, n) == [self EXCEPT !.out = Append(@, Msg(m, path, n))]

\* ------------------------------------------------------------------- json
Digit(n) == CASE n = 0 -> "0" [] n = 1 -> "1" [] n = 2 -> "2" [] n = 3 -> "3"
              [] n = 4 -> "4" [] n = 5 -> "5" [] n = 6 -> "6" [] n = 7 -> "7"
              [] n = 8 -> "8" [] n = 9 -> "9"
DigitVal(c) == CHOOSE n \in 0..9 : Digit(n) = c

RECURSIVE IntToStr(_)
IntToStr(n) ==
    IF n < 0 THEN <<"-">> \o IntToStr(-n)
    ELSE IF n < 10 THEN <<Digit(n)>>
    ELSE Append(IntToStr(n \div 10), Digit(n % 10))

RECURSIVE DigitsToInt(_, _, _)
DigitsToInt(s, i, acc) ==
    IF i > Len(s) THEN acc ELSE DigitsToInt(s, i + 1, acc * 10 + DigitVal(s[i]))

StrToInt(s) ==
    IF s # <<>> /\ s[1] = "-" THEN -DigitsToInt(s, 2, 0) ELSE DigitsToInt(s, 1, 0)

\* A JSON document: an object is its members in order, each a <<name, value>> pair
JsonNum(n) == [t |-> "num", s |-> IntToStr(n), m |-> <<>>]
JsonStr(s) == [t |-> "str", s |-> s, m |-> <<>>]
JsonObj(members) == [t |-> "obj", s |-> <<>>, m |-> members]

\* json.dump of a Dict[str, int]
DumpIntDict(d) == JsonObj([i \in 1..Len(d) |-> <<d[i].k, JsonNum(d[i].v)>>])
\* json.dump of a Dict[str, Dict[str, int]]
DumpLenses(d) == JsonObj([i \in 1..Len(d) |-> <<d[i].k, DumpIntDict(d[i].v)>>])

RECURSIVE LoadIntDictFrom(_, _, _)
LoadIntDictFrom(members, i, acc) ==
    IF i > Len(members) THEN acc
    ELSE LoadIntDictFrom(members, i + 1, Put(acc, members[i][1], StrToInt(members[i][2].s)))

\* json.load of an object of numbers
LoadIntDict(j) == LoadIntDictFrom(j.m, 1, <<>>)

RECURSIVE LoadLensesFrom(_, _, _)
LoadLensesFrom(members, i, acc) ==
    IF i > Len(members) THEN acc
    ELSE LoadLensesFrom(members, i + 1, Put(acc, members[i][1], LoadIntDict(members[i][2])))

\* json.load of an object of objects of numbers
LoadLenses(j) == LoadLensesFrom(j.m, 1, <<>>)

k_tracked_files == <<"t", "r", "a", "c", "k", "e", "d", "_", "f", "i", "l", "e", "s">>
k_lenses == <<"l", "e", "n", "s", "e", "s">>
k_active_lens == <<"a", "c", "t", "i", "v", "e", "_", "l", "e", "n", "s">>

JsonHas(j, name) == \E i \in 1..Len(j.m) : j.m[i][1] = name
\* the last member of that name wins, as in json.load
JsonGet(j, name) ==
    j.m[CHOOSE i \in 1..Len(j.m) :
            /\ j.m[i][1] = name
            /\ \A i2 \in 1..Len(j.m) : j.m[i2][1] = name => i2 <= i][2]

\* --------------------------------------------------------------- the store
\* SimpleChatbot.__init__ before load: the fields of a new object
NewStore(persist_, disk_) ==
    [tracked_files |-> <<>>, total_tokens |-> 0, lenses |-> <<>>, active_lens |-> <<>>,
     persist |-> persist_, disk |-> disk_, out |-> <<>>,
     messages |-> <<>>, request |-> <<>>]

save_tracked_files(self) ==
    [self EXCEPT !.disk = << JsonObj(<< <<k_tracked_files, DumpIntDict(self.tracked_files)>>,
                                        <<k_lenses, DumpLenses(self.lenses)>>,
                                        <<k_active_lens, JsonStr(self.active_lens)>> >>) >>]

\* "if self.persist: self.save_tracked_files()"
save_if_persist(self) == IF self.persist THEN save_tracked_files(self) ELSE self

\* load_tracked_files that forgets the active lens
load_tracked_files_no_active(self) ==
    IF self.disk = <<>> THEN self
    ELSE LET data == self.disk[1]
             tf == IF JsonHas(data, k_tracked_files)
                   THEN LoadIntDict(JsonGet(data, k_tracked_files)) ELSE <<>>
             ls == IF JsonHas(data, k_lenses)
                   THEN LoadLenses(JsonGet(data, k_lenses)) ELSE <<>>
         IN print([self EXCEPT !.tracked_files = tf, !.lenses = ls, !.active_lens = <<>>,
                               !.total_tokens = SumValues(tf)],
                  "Loaded", <<>>, Len(tf))

load_tracked_files(self) ==
    IF self.disk = <<>> THEN self
    ELSE LET data == self.disk[1]
             tf == IF JsonHas(data, k_tracked_files)
                   THEN LoadIntDict(JsonGet(data, k_tracked_files)) ELSE <<>>
             ls == IF JsonHas(data, k_lenses)
                   THEN LoadLenses(JsonGet(data, k_lenses)) ELSE <<>>
             al == IF JsonHas(data, k_active_lens)
                   THEN JsonGet(data, k_active_lens).s ELSE <<>>
         IN print([self EXCEPT !.tracked_files = tf, !.lenses = ls, !.active_lens = al,
                               !.total_tokens = SumValues(tf)],
                  "Loaded", al, Len(tf))

\* SimpleChatbot.__init__
init(persist_, disk_) ==
    IF persist_ THEN load_tracked_files(NewStore(persist_, disk_))
    ELSE NewStore(persist_, disk_)

\* track_file without the budget test
track_file_unchecked(self, filepath, token_count) ==
    IF isfile(filepath)
    THEN print(save_if_persist([self EXCEPT
                   !.tracked_files = Put(@, filepath, token_count),
                   !.total_tokens = self.total_tokens + token_count]),
               "Tracking file", filepath, token_count)
    ELSE print(self, "does not exist", filepath, 0)

\* track_file that records the entry before it tests the budget
track_file_partial(self, filepath, token_count) ==
    IF isfile(filepath)
    THEN LET new_total == self.total_tokens + token_count IN
         IF new_total <= TOKEN_LIMIT
         THEN print(save_if_persist([self EXCEPT
                        !.tracked_files = Put(@, filepath, token_count),
                        !.total_tokens = new_total]),
                    "Tracking file", filepath, token_count)
         ELSE print([self EXCEPT !.tracked_files = Put(@, filepath, token_count)],
                    "would exceed the token limit", filepath, 0)
    ELSE print(self, "does not exist", filepath, 0)

track_file(self, filepath, token_count) ==
    IF isfile(filepath)
    THEN LET new_total == self.total_tokens + token_count IN
         IF new_total <= TOKEN_LIMIT
         THEN print(save_if_persist([self EXCEPT
                        !.tracked_files = Put(@, filepath, token_count),
                        !.total_tokens = new_total]),
                    "Tracking file", filepath, token_count)
         ELSE print(self, "would exceed the token limit", filepath, 0)
    ELSE print(self, "does not exist", filepath, 0)

clear_tracked_files(self) ==
    print(save_if_persist([self EXCEPT !.tracked_files = <<>>, !.total_tokens = 0]),
          "All tracked files have been cleared", <<>>, 0)

\* remove_tracked_file that also drops the path from the active lens
remove_tracked_file_linked(self, filepath) ==
    IF Has(self.tracked_files, filepath)
    THEN print(save_if_persist([self EXCEPT
                   !.total_tokens = @ - Get(self.tracked_files, filepath),
                   !.tracked_files = Del(@, filepath),
                   !.lenses = IF self.active_lens # <<>>
                              THEN Put(@, self.active_lens,
                                       Del(Get(self.lenses, self.active_lens), filepath))
                              ELSE @]),
               "Removed file from tracking", filepath, 0)
    ELSE print(self, "is not being tracked", filepath, 0)

remove_tracked_file(self, filepath) ==
    IF Has(self.tracked_files, filepath)
    THEN print(save_if_persist([self EXCEPT
                   !.total_tokens = @ - Get(self.tracked_files, filepath),
                   !.tracked_files = Del(@, filepath)]),
               "Removed file from tracking", filepath, 0)
    ELSE print(self, "is not being tracked", filepath, 0)

\* read_tracked_files that ignores the active lens
read_tracked_files_all(self) == KeySeq(self.tracked_files)

\* the member paths whose content read_tracked_files puts in the context, in order
read_tracked_files(self) ==
    LET files_dict == IF self.active_lens # <<>>
                      THEN Get(self.lenses, self.active_lens)
                      ELSE self.tracked_files
    IN KeySeq(files_dict)

\* names that do not start with '.'
NotHidden(names) == SelectSeq(names, LAMBDA n : ~startswith(n, <<".">>))

RECURSIVE WalkFrom(_, _, _)
RECURSIVE walk(_)
\* os.walk(top), with the loop's pruning of hidden names: the file_path values
\* the loop body reaches, in order (a directory's files, then its sub-directories)
walk(top) ==
    LET entry == listdir(abspath(top))
        files == NotHidden(entry.files)
        dirs == NotHidden(entry.dirs)
    IN [i \in 1..Len(files) |-> pathjoin(top, files[i])] \o WalkFrom(top, dirs, 1)

WalkFrom(top, dirs, i) ==
    IF i > Len(dirs) THEN <<>>
    ELSE walk(pathjoin(top, dirs[i])) \o WalkFrom(top, dirs, i + 1)

RECURSIVE TrackDirFrom(_, _, _, _)
TrackDirFrom(self, paths, i, tokens) ==
    IF i > Len(paths) THEN self
    ELSE LET file_path == paths[i]
             token_count == tokens[abspath(file_path)]
         IN IF token_count = ReadFails
            THEN TrackDirFrom(print(self, "Error processing", file_path, 0), paths, i + 1, tokens)
            ELSE IF token_count > TOKEN_LIMIT_PER_FILE
            THEN TrackDirFrom(print(self, "Skipping", file_path, TOKEN_LIMIT_PER_FILE),
                              paths, i + 1, tokens)
            ELSE TrackDirFrom(track_file(self, file_path, token_count), paths, i + 1, tokens)

RECURSIVE TrackDirFromAbort(_, _, _, _)
TrackDirFromAbort(self, paths, i, tokens) ==
    IF i > Len(paths) THEN self
    ELSE LET file_path == paths[i]
             token_count == tokens[abspath(file_path)]
         IN IF token_count = ReadFails
            THEN TrackDirFromAbort(print(self, "Error processing", file_path, 0),
                                   paths, i + 1, tokens)
            ELSE IF token_count > TOKEN_LIMIT_PER_FILE
            THEN print(self, "Skipping", file_path, TOKEN_LIMIT_PER_FILE)
            ELSE TrackDirFromAbort(track_file(self, file_path, token_count),
                                   paths, i + 1, tokens)

\* track_directory that leaves the walk at the first file over the per-file limit
track_directory_abort(self, directory_path, tokens) ==
    TrackDirFromAbort(self, walk(directory_path), 1, tokens)

\* tokens: what reading each visited file gives (a token count or ReadFails)
track_directory(self, directory_path, tokens) ==
    TrackDirFrom(self, walk(directory_path), 1, tokens)

RECURSIVE RemoveAll(_, _, _)
RemoveAll(self, to_remove, i) ==
    IF i > Len(to_remove) THEN self
    ELSE RemoveAll([self EXCEPT !.total_tokens = @ - Get(self.tracked_files, to_remove[i]),
                                !.tracked_files = Del(@, to_remove[i])],
                   to_remove, i + 1)

\* remove_tracked_directory that compares the keys as they were spelled
remove_tracked_directory_raw(self, directory_path_) ==
    LET directory_path == abspath(directory_path_)
        to_remove == SelectSeq(KeySeq(self.tracked_files),
                               LAMBDA filepath : startswith(filepath, directory_path))
    IN IF to_remove = <<>>
       THEN print(self, "No tracked files found in directory", directory_path, 0)
       ELSE print(save_if_persist(RemoveAll(self, to_remove, 1)),
                  "Removed all tracked files in directory", directory_path, 0)

remove_tracked_directory(self, directory_path_) ==
    LET directory_path == abspath(directory_path_)
        to_remove == SelectSeq(KeySeq(self.tracked_files),
                               LAMBDA filepath : startswith(abspath(filepath), directory_path))
    IN IF to_remove = <<>>
       THEN print(self, "No tracked files found in directory", directory_path, 0)
       ELSE print(save_if_persist(RemoveAll(self, to_remove, 1)),
                  "Removed all tracked files in directory", directory_path, 0)

\* create_lens that makes an existing lens the active one
create_lens_activates(self, lens_name) ==
    IF Has(self.lenses, lens_name)
    THEN print(save_if_persist([self EXCEPT !.active_lens = lens_name]),
               "Lens already exists", lens_name, 0)
    ELSE print(save_if_persist([self EXCEPT !.lenses = Put(@, lens_name, <<>>),
                                            !.active_lens = lens_name]),
               "Lens created", lens_name, 0)

create_lens(self, lens_name) ==
    IF Has(self.lenses, lens_name)
    THEN print(self, "Lens already exists", lens_name, 0)
    ELSE print(save_if_persist([self EXCEPT !.lenses = Put(@, lens_name, <<>>),
                                            !.active_lens = lens_name]),
               "Lens created", lens_name, 0)

s_none == <<"n", "o", "n", "e">>

\* switch_lens that does not write the snapshot when it switches to no lens
switch_lens_unsaved(self, lens_name) ==
    IF lens_name = s_none
    THEN print([self EXCEPT !.active_lens = <<>>], "Switched to no active lens", <<>>, 0)
    ELSE IF ~Has(self.lenses, lens_name)
    THEN print(self, "Lens does not exist", lens_name, 0)
    ELSE print(save_if_persist([self EXCEPT !.active_lens = lens_name]),
               "Switched to lens", lens_name, 0)

\* switch_lens that looks the name up before it tests for "none"
switch_lens_lookup_first(self, lens_name) ==
    IF Has(self.lenses, lens_name)
    THEN print(save_if_persist([self EXCEPT !.active_lens = lens_name]),
               "Switched to lens", lens_name, 0)
    ELSE IF lens_name = s_none
    THEN print(save_if_persist([self EXCEPT !.active_lens = <<>>]),
               "Switched to no active lens", <<>>, 0)
    ELSE print(self, "Lens does not exist", lens_name, 0)

\* switch_lens without the existence test
switch_lens_unchecked(self, lens_name) ==
    IF lens_name = s_none
    THEN print(save_if_persist([self EXCEPT !.active_lens = <<>>]),
               "Switched to no active lens", <<>>, 0)
    ELSE print(save_if_persist([self EXCEPT !.active_lens = lens_name]),
               "Switched to lens", lens_name, 0)

switch_lens(self, lens_name) ==
    IF lens_name = s_none
    THEN print(save_if_persist([self EXCEPT !.active_lens = <<>>]),
               "Switched to no active lens", <<>>, 0)
    ELSE IF ~Has(self.lenses, lens_name)
    THEN print(self, "Lens does not exist", lens_name, 0)
    ELSE print(save_if_persist([self EXCEPT !.active_lens = lens_name]),
               "Switched to lens", lens_name, 0)

add_file_to_lens(self, filepath) ==
    IF self.active_lens = <<>>
    THEN print(self, "No active lens", <<>>, 0)
    ELSE IF Has(self.tracked_files, filepath)
    THEN print(save_if_persist([self EXCEPT !.lenses =
                   Put(@, self.active_lens,
                       Put(Get(self.lenses, self.active_lens), filepath,
                           Get(self.tracked_files, filepath)))]),
               "added to lens", filepath, 0)
    ELSE print(self, "is not tracked", filepath, 0)

\* remove_file_from_lens that empties the active lens
remove_file_from_lens_all(self, filepath) ==
    IF self.active_lens = <<>> \/ ~Has(Get(self.lenses, self.active_lens), filepath)
    THEN print(self, "is not part of the active lens", filepath, 0)
    ELSE print(save_if_persist([self EXCEPT !.lenses = Put(@, self.active_lens, <<>>)]),
               "removed from lens", filepath, 0)

remove_file_from_lens(self, filepath) ==
    IF self.active_lens = <<>> \/ ~Has(Get(self.lenses, self.active_lens), filepath)
    THEN print(self, "is not part of the active lens", filepath, 0)
    ELSE print(save_if_persist([self EXCEPT !.lenses =
                   Put(@, self.active_lens, Del(Get(self.lenses, self.active_lens), filepath))]),
               "removed from lens", filepath, 0)

RECURSIVE PrintEntries(_, _, _)
\* one "- path (Tokens: n)" line per entry of d
PrintEntries(self, d, i) ==
    IF i > Len(d) THEN self
    ELSE PrintEntries(print(self, "- (Tokens)", d[i].k, d[i].v), d, i + 1)

list_tracked_files(self) ==
    IF self.tracked_files # <<>>
    THEN LET total_tokens_used == SumValues(self.tracked_files)
             tokens_remaining == TOKEN_LIMIT - total_tokens_used
             listed == PrintEntries(print(self, "Tracked Files and Token Counts", <<>>, 0),
                                    self.tracked_files, 1)
         IN print(print(listed, "Total Tokens Used", <<>>, total_tokens_used),
                  "Tokens Remaining", <<>>, tokens_remaining)
    ELSE print(self, "No files are being tracked", <<>>, 0)

RECURSIVE PrintNames(_, _, _)
PrintNames(self, d, i) ==
    IF i > Len(d) THEN self
    ELSE PrintNames(print(self, "-", d[i].k, 0), d, i + 1)

list_lenses(self) ==
    IF self.lenses = <<>>
    THEN print(self, "No lenses available", <<>>, 0)
    ELSE print(PrintNames(print(self, "Available Lenses", <<>>, 0), self.lenses, 1),
               "Active Lens", self.active_lens, 0)

list_files_in_lens(self, lens_name) ==
    IF ~Has(self.lenses, lens_name)
    THEN print(self, "Lens does not exist", lens_name, 0)
    ELSE IF Len(Get(self.lenses, lens_name)) = 0
    THEN print(self, "No files in the lens", lens_name, 0)
    ELSE PrintEntries(print(self, "Files in lens", lens_name, 0),
                      Get(self.lenses, lens_name), 1)

list_files_in_current_lens(self) ==
    IF self.active_lens = <<>>
    THEN print(self, "There is no active lens", <<>>, 0)
    ELSE list_files_in_lens(self, self.active_lens)

\* ------------------------------------------------------------------- chat
\* a message's content: plain text, or the context text with the files it quotes
Content(text, files) == [text |-> text, files |-> files]
Message(role, content) == [role |-> role, content |-> content]
s_context == <<"T", "r", "a", "c", "k", "e", "d", " ", "f", "i", "l", "e", " ", "c", "o", "n", "t", "e", "x", "t", ":">>
\* the string read_tracked_files returns
ContextContent(self) == Content(s_context, read_tracked_files(self))

RECURSIVE PrintParts(_, _, _)
\* the consumer's loop over the generator: each fragment with content is printed
PrintParts(self, frags, i) ==
    IF i > Len(frags) THEN self
    ELSE IF frags[i] # <<>>
    THEN PrintParts(print(self, "part", frags[i], 0), frags, i + 1)
    ELSE PrintParts(self, frags, i + 1)

\* reply: the fragments the provider streams, and whether the stream then fails
get_stream_response(self, prompt, reply) ==
    LET sent == [self EXCEPT !.request =
                     <<Message("user", ContextContent(self))>>
                     \o self.messages
                     \o <<Message("user", Content(prompt, <<>>))>>]
        streamed == PrintParts(sent, reply.frags, 1)
    IN IF reply.fails THEN print(streamed, "Traceback", <<>>, 0) ELSE streamed

\* the else branch of run: a chat turn
chat(self, user_input, reply) ==
    LET appended == [self EXCEPT !.messages =
                         Append(@, Message("user", Content(user_input, <<>>)))]
        answered == get_stream_response(print(appended, "Bot: ", <<>>, 0), user_input, reply)
    IN IF reply.fails THEN answered ELSE print(answered, "", <<>>, 0)

\* ---------------------------------------------------------------- run loop
c_add == <<"/", "a", "d", "d", " ">>
c_add_dir == <<"/", "a", "d", "d", "_", "d", "i", "r", " ">>
c_list == <<"/", "l", "i", "s", "t">>
c_remove == <<"/", "r", "e", "m", "o", "v", "e", " ">>
c_quit == <<"/", "q", "u", "i", "t">>
c_clear == <<"/", "c", "l", "e", "a", "r">>
c_remove_dir == <<"/", "r", "e", "m", "o", "v", "e", "_", "d", "i", "r", " ">>
c_create_lens == <<"/", "c", "r", "e", "a", "t", "e", "_", "l", "e", "n", "s", " ">>
c_list_lenses == <<"/", "l", "i", "s", "t", "_", "l", "e", "n", "s", "e", "s">>
c_switch_lens == <<"/", "s", "w", "i", "t", "c", "h", "_", "l", "e", "n", "s", " ">>
c_add_to_lens == <<"/", "a", "d", "d", "_", "t", "o", "_", "l", "e", "n", "s", " ">>
c_remove_from_lens == <<"/", "r", "e", "m", "o", "v", "e", "_", "f", "r", "o", "m", "_", "l", "e", "n", "s", " ">>
c_list_lens_sp == <<"/", "l", "i", "s", "t", "_", "l", "e", "n", "s", " ">>
c_list_files_in_lens == <<"/", "l", "i", "s", "t", "_", "f", "i", "l", "e", "s", "_", "i", "n", "_", "l", "e", "n", "s", " ">>
c_list_lens == <<"/", "l", "i", "s", "t", "_", "l", "e", "n", "s">>

\* s[n:]
SliceFrom(s_, n) == IF n >= Len(s_) THEN <<>> ELSE SubSeq(s_, n + 1, Len(s_))

\* os.path.isdir(directory)
Dirs == {cwd, <<"/", "w", "/", "d">>, <<"/", "w", "/", "d", "/", "s">>,
         <<"/", "w", "/", "d", "/", ".", "g">>}
isdir(directory) == abspath(directory) \in Dirs

\* one iteration of run's loop on the line user_input; env: what the
\* environment gives during it (c: the token count of the file read by
\* /add, tokens: the reads of /add_dir, reply: the provider's stream)
run(self, user_input, env) ==
    IF startswith(user_input, c_add)
    THEN track_file(self, SliceFrom(user_input, Len(c_add)), env.c)
    ELSE IF startswith(user_input, c_add_dir)
    THEN LET directory == SliceFrom(user_input, Len(c_add_dir)) IN
         IF isdir(directory)
         THEN print(track_directory(self, directory, env.tokens),
                    "Tracking all files within", directory, 0)
         ELSE print(self, "Directory does not exist", directory, 0)
    ELSE IF user_input = c_list
    THEN list_tracked_files(self)
    ELSE IF startswith(user_input, c_remove)
    THEN remove_tracked_file(self, SliceFrom(user_input, Len(c_remove)))
    ELSE IF user_input = c_quit
    THEN print(self, "Quitting Simple Chatbot", <<>>, 0)
    ELSE IF user_input = c_clear
    THEN clear_tracked_files(self)
    ELSE IF startswith(user_input, c_remove_dir)
    THEN remove_tracked_directory(self, SliceFrom(user_input, Len(c_remove_dir)))
    ELSE IF startswith(user_input, c_create_lens)
    THEN create_lens(self, SliceFrom(user_input, Len(c_create_lens)))
    ELSE IF user_input = c_list_lenses
    THEN list_lenses(self)
    ELSE IF startswith(user_input, c_switch_lens)
    THEN switch_lens(self, SliceFrom(user_input, Len(c_switch_lens)))
    ELSE IF startswith(user_input, c_add_to_lens)
    THEN add_file_to_lens(self, SliceFrom(user_input, Len(c_add_to_lens)))
    ELSE IF startswith(user_input, c_remove_from_lens)
    THEN remove_file_from_lens(self, SliceFrom(user_input, Len(c_remove_from_lens)))
    ELSE IF startswith(user_input, c_list_lens_sp)
    THEN list_files_in_lens(self, SliceFrom(user_input, Len(c_list_files_in_lens)))
    ELSE IF user_input = c_list_lens
    THEN list_files_in_current_lens(self)
    ELSE chat(self, user_input, env.reply)

\* ------------------------------------------------------------------ state
VARIABLES
    tracked_files,   \* self.tracked_files: path -> token count
    total_tokens,    \* self.total_tokens
    lenses,          \* self.lenses: lens name -> (path -> token count)
    active_lens,     \* self.active_lens ("" when none)
    persist,         \* self.persist
    disk,            \* .localchat-tracking.json: <<>> when absent, else <<document>>
    last,            \* the last call: its name, argument and what it printed
    steps,           \* number of calls made so far
    messages,        \* self.messages: the conversation history
    request          \* the messages of the last request sent to the provider

vars == <<tracked_files, total_tokens, lenses, active_lens, persist, disk, last, steps,
          messages, request>>

\* the object as one value
Self == [tracked_files |-> tracked_files, total_tokens |-> total_tokens, lenses |-> lenses,
         active_lens |-> active_lens, persist |-> persist, disk |-> disk, out |-> <<>>,
         messages |-> messages, request |-> request]

\* the call op(arg) took the object to the value new, as one of at most bound calls
BecomesWithin(new, op, arg, bound) ==
    /\ steps < bound
    /\ tracked_files' = new.tracked_files
    /\ total_tokens' = new.total_tokens
    /\ lenses' = new.lenses
    /\ active_lens' = new.active_lens
    /\ persist' = new.persist
    /\ disk' = new.disk
    /\ last' = [op |-> op, arg |-> arg, out |-> new.out]
    /\ steps' = steps + 1
    /\ messages' = new.messages
    /\ request' = new.request

\* the call op(arg) took the object to the value new
Becomes(new, op, arg) == BecomesWithin(new, op, arg, MaxSteps)

\* ----------------------------------------------------------------- inputs
p_da == <<"d", "a">>
p_dot_da == <<".", "/", "d", "a">>
p_df == <<"d", "/", "f">>
p_dsg == <<"d", "/", "s", "/", "g">>
p_z == <<"z">>
TrackPaths == {p_da, p_dot_da, p_df, p_z}
RemovePaths == {p_da, p_dot_da, p_df}
LensPaths == {p_df, p_dsg}

d_d == <<"d">>
d_abs_ds == <<"/", "w", "/", "d", "/", "s">>
TrackDirs == {d_d}
RemoveDirs == {d_d, d_abs_ds}

n_L == <<"L">>
LensNames == {n_L, s_none, <<>>}

Init ==
    /\ persist \in BOOLEAN
    /\ tracked_files = <<>>
    /\ total_tokens = 0
    /\ lenses = <<>>
    /\ active_lens = <<>>
    /\ disk = <<>>
    /\ last = [op |-> "__init__", arg |-> <<>>, out |-> <<>>]
    /\ steps = 0
    /\ messages = <<>>
    /\ request = <<>>

\* ---------------------------------------------------------------- actions
Track == \E filepath \in TrackPaths :
    \E c \in IF isfile(filepath) THEN Sizes ELSE {0} :
        Becomes(track_file(Self, filepath, c), "track_file", filepath)

TrackDirectory == \E d \in TrackDirs :
    \E tokens \in [{abspath(q) : q \in {walk(d)[i] : i \in 1..Len(walk(d))}}
                      -> Sizes \cup {ReadFails}] :
        Becomes(track_directory(Self, d, tokens), "track_directory", d)

Remove == \E filepath \in RemovePaths :
    Becomes(remove_tracked_file(Self, filepath), "remove_tracked_file", filepath)

RemoveDirectory == \E d \in RemoveDirs :
    Becomes(remove_tracked_directory(Self, d), "remove_tracked_directory", d)

Clear == Becomes(clear_tracked_files(Self), "clear_tracked_files", <<>>)

CreateLens == \E n \in LensNames :
    Becomes(create_lens(Self, n), "create_lens", n)

SwitchLens == \E n \in LensNames :
    Becomes(switch_lens(Self, n), "switch_lens", n)

AddFileToLens == \E filepath \in LensPaths :
    Becomes(add_file_to_lens(Self, filepath), "add_file_to_lens", filepath)

RemoveFileFromLens == \E filepath \in LensPaths :
    Becomes(remove_file_from_lens(Self, filepath), "remove_file_from_lens", filepath)

\* the process ends and a new one is started in the same directory
Restart == Becomes(init(persist, disk), "__init__", <<>>)

Next ==
    \/ Track
    \/ TrackDirectory
    \/ Remove
    \/ RemoveDirectory
    \/ Clear
    \/ CreateLens
    \/ SwitchLens
    \/ AddFileToLens
    \/ RemoveFileFromLens
    \/ Restart

Spec == Init /\ [][Next]_vars

\* ------------------------------------------------- the loop on input lines
AddLines == {c_add \o p_df, c_add \o p_z}
AddDirLines == {c_add_dir \o d_d, c_add_dir \o p_z}
CommandLines == {c_list, c_list_lenses, c_clear,
                 c_remove \o p_df, c_remove_dir \o d_d,
                 c_create_lens \o n_L, c_create_lens,
                 c_switch_lens \o n_L, c_switch_lens \o s_none,
                 c_add_to_lens \o p_df, c_remove_from_lens \o p_df,
                 c_list_lens_sp \o n_L, c_list_lens}
s_hi == <<"h", "i">>
ChatLines == {s_hi}

\* what the provider streams: fragments (one without content), then the end
\* of the stream or a failure
Replies == {[frags |-> << <<"o">>, <<>>, <<"k">> >>, fails |-> FALSE],
            [frags |-> << <<"o">> >>, fails |-> TRUE]}
NoReply == [frags |-> <<>>, fails |-> FALSE]
Env(c, tokens, reply) == [c |-> c, tokens |-> tokens, reply |-> reply]
NoEnv == Env(0, <<>>, NoReply)

RunAdd == \E line \in AddLines, c \in Sizes :
    Becomes(run(Self, line, Env(c, <<>>, NoReply)), "run", line)

RunAddDir == \E line \in AddDirLines :
    LET visited == walk(SliceFrom(line, Len(c_add_dir))) IN
    \E tokens \in [{abspath(visited[i]) : i \in 1..Len(visited)} -> Sizes] :
        Becomes(run(Self, line, Env(0, tokens, NoReply)), "run", line)

RunCommand == \E line \in CommandLines :
    Becomes(run(Self, line, NoEnv), "run", line)

RunChat == \E line \in ChatLines, reply \in Replies :
    Becomes(run(Self, line, Env(0, <<>>, reply)), "run", line)

NextRun ==
    \/ RunAdd
    \/ RunAddDir
    \/ RunCommand
    \/ RunChat
    \/ Restart

SpecRun == Init /\ [][NextRun]_vars

\* ------------------------------------------- large files moved through a lens
\* The store operations on files that fill more than half of the budget.
LargeSizes == {60000}

TrackLarge == \E filepath \in LensPaths, c \in LargeSizes :
    BecomesWithin(track_file(Self, filepath, c), "track_file", filepath, MaxLensSteps)

RemoveTracked == \E filepath \in LensPaths :
    BecomesWithin(remove_tracked_file(Self, filepath), "remove_tracked_file", filepath,
                  MaxLensSteps)

CreateLensL ==
    BecomesWithin(create_lens(Self, n_L), "create_lens", n_L, MaxLensSteps)

SwitchLensNone ==
    BecomesWithin(switch_lens(Self, s_none), "switch_lens", s_none, MaxLensSteps)

AddLargeToLens == \E filepath \in LensPaths :
    BecomesWithin(add_file_to_lens(Self, filepath), "add_file_to_lens", filepath,
                  MaxLensSteps)

NextLens ==
    \/ TrackLarge
    \/ RemoveTracked
    \/ CreateLensL
    \/ SwitchLensNone
    \/ AddLargeToLens

SpecLens == Init /\ [][NextLens]_vars

\* ----------------------------------------------------------------- claims
ActiveLens == Get(lenses, active_lens)
Printed(m) == \E i \in 1..Len(last.out) : last.out[i].msg = m
TrackedSetOps == {"track_file", "track_directory", "remove_tracked_file",
                  "remove_tracked_directory", "clear_tracked_files"}

\* C1: total_tokens equals the sum of the cached token counts of the tracked
\* files, after any sequence of calls (re-tracking a tracked path included).
C1_TotalIsSum == total_tokens = SumValues(tracked_files)

\* C2: total_tokens never exceeds TOKEN_LIMIT; an addition that would make it
\* larger is rejected.
C2_WithinLimit == total_tokens <= TOKEN_LIMIT

\* a track was rejected with the budget nearly used up
C2_Witness ==
    /\ last.op = "track_file"
    /\ Printed("would exceed the token limit")
    /\ total_tokens > TOKEN_LIMIT - 20000

\* C3: track(path) of an existing file whose count c has total_tokens + c >
\* TOKEN_LIMIT changes nothing: tracked set, total, lenses, active lens and
\* the persisted snapshot are as before.
C3_RejectedTrackChangesNothing ==
    [][(/\ last'.op = "track_file"
        /\ isfile(last'.arg)
        /\ \E c \in Sizes :
              /\ total_tokens + c > TOKEN_LIMIT
              /\ Becomes(track_file(Self, last'.arg, c), "track_file", last'.arg))
          => UNCHANGED <<tracked_files, total_tokens, lenses, active_lens, disk>>]_vars

\* a track of an already tracked path was rejected, with a snapshot on disk
C3_Witness ==
    /\ last.op = "track_file"
    /\ Printed("would exceed the token limit")
    /\ Has(tracked_files, last.arg)
    /\ disk # <<>>

\* C4: removeDirectory(d) removes exactly the entries whose absolute path
\* starts with the absolute form of d, keeps the others with their counts,
\* lowers total_tokens by the removed counts, and changes nothing when no
\* entry matches.
C4_RemoveDirectoryExact ==
    [][last'.op = "remove_tracked_directory"
          => LET d == last'.arg
                 inside(e) == startswith(abspath(e.k), abspath(d))
                 gone == SelectSeq(tracked_files, inside)
             IN /\ tracked_files' = SelectSeq(tracked_files, LAMBDA e : ~inside(e))
                /\ \A i \in 1..Len(tracked_files) :
                      inside(tracked_files[i]) <=> ~Has(tracked_files', tracked_files[i].k)
                /\ total_tokens' = total_tokens - SumValues(gone)
                /\ gone = <<>> => UNCHANGED <<tracked_files, total_tokens, lenses,
                                              active_lens, disk>>]_vars

\* a directory removal took some entries and left others
C4_Witness ==
    /\ last.op = "remove_tracked_directory"
    /\ Printed("Removed all tracked files in directory")
    /\ tracked_files # <<>>

\* C5 as stated: with a lens active, for every tracked p and every prior
\* content of the lens, addFileToLens(p) then removeFileFromLens(p) leaves
\* the active lens as it was.
C5_AddThenRemoveRestores ==
    [][(/\ last'.op = "add_file_to_lens"
        /\ active_lens # <<>>
        /\ Has(tracked_files, last'.arg))
          => Get(remove_file_from_lens(Self', last'.arg).lenses, active_lens) = ActiveLens]_vars

\* C5 amended: the same, for every tracked p that is not yet a member of the
\* active lens.
C5_AddThenRemoveRestoresNew ==
    [][(/\ last'.op = "add_file_to_lens"
        /\ active_lens # <<>>
        /\ Has(tracked_files, last'.arg)
        /\ ~Has(ActiveLens, last'.arg))
          => Get(remove_file_from_lens(Self', last'.arg).lenses, active_lens) = ActiveLens]_vars

\* a new path was just added to a lens that had another member
C5_Witness ==
    /\ last.op = "add_file_to_lens"
    /\ Printed("added to lens")
    /\ active_lens # <<>>
    /\ Len(ActiveLens) = 2
    /\ ActiveLens[2].k = last.arg

\* C6: track, trackDirectory, remove, removeDirectory and clear never change
\* the lenses or the active lens.
C6_TrackedSetOpsKeepLenses ==
    [][last'.op \in TrackedSetOps => UNCHANGED <<lenses, active_lens>>]_vars

\* a path was removed from the tracked set and is still in the active lens
C6_Witness ==
    /\ last.op = "remove_tracked_file"
    /\ Printed("Removed file from tracking")
    /\ active_lens # <<>>
    /\ Has(ActiveLens, last.arg)
    /\ ~Has(tracked_files, last.arg)

\* C7: switchLens("none") always succeeds, leaves no lens active and does not
\* change the tracked set, the total or the lenses.
C7_SwitchNone ==
    [][(last'.op = "switch_lens" /\ last'.arg = s_none)
          => /\ active_lens' = <<>>
             /\ last'.out = <<Msg("Switched to no active lens", <<>>, 0)>>
             /\ UNCHANGED <<tracked_files, total_tokens, lenses>>]_vars

\* switchLens("none") was called while a lens named "none" exists
C7_Witness ==
    /\ last.op = "switch_lens"
    /\ last.arg = s_none
    /\ Has(lenses, s_none)

\* C8: saving the state and loading it in a fresh store gives the same
\* tracked set, lenses and active lens.
C8_SaveLoadRoundTrip ==
    LET fresh == load_tracked_files(NewStore(TRUE, save_tracked_files(Self).disk))
    IN /\ fresh.tracked_files = tracked_files
       /\ fresh.lenses = lenses
       /\ fresh.active_lens = active_lens

\* a store with a tracked file, an active lens and a member in it
C8_Witness ==
    /\ tracked_files # <<>>
    /\ active_lens # <<>>
    /\ ActiveLens # <<>>

\* C9: the active lens is unset or the name of an existing lens.
C9_ActiveLensExists == active_lens = <<>> \/ Has(lenses, active_lens)

\* a switch made an existing lens the active one
C9_Witness ==
    /\ last.op = "switch_lens"
    /\ Printed("Switched to lens")
    /\ active_lens # <<>>

\* C10: the context holds the members of the active lens, in its order, when
\* a lens is active, and the tracked paths in order otherwise; a tracked
\* file outside the active lens is left out, and is back after
\* switchLens("none").
C10_ContextMembers ==
    LET ctx == read_tracked_files(Self)
        inctx == {ctx[i] : i \in 1..Len(ctx)}
    IN /\ active_lens # <<>> =>
             /\ ctx = KeySeq(ActiveLens)
             /\ \A f \in KeySet(tracked_files) \ KeySet(ActiveLens) : f \notin inctx
       /\ active_lens = <<>> => ctx = KeySeq(tracked_files)
       /\ read_tracked_files(switch_lens(Self, s_none)) = KeySeq(tracked_files)

\* a lens with a member is active and another tracked file is outside it
C10_Witness ==
    /\ active_lens # <<>>
    /\ ActiveLens # <<>>
    /\ KeySet(tracked_files) \ KeySet(ActiveLens) # {}

RECURSIVE ConcatParts(_, _)
\* the fragments printed by a turn, concatenated
ConcatParts(out, i) ==
    IF i > Len(out) THEN <<>>
    ELSE (IF out[i].msg = "part" THEN out[i].path ELSE <<>>) \o ConcatParts(out, i + 1)

TurnCompleted(l) ==
    /\ l.op = "run"
    /\ l.arg \in ChatLines
    /\ \A i \in 1..Len(l.out) : l.out[i].msg # "Traceback"

\* C11: a chat turn whose stream completes extends the history by exactly
\* {user, userText} and then {assistant, the concatenated fragments}.
C11_TurnAppendsUserAndAssistant ==
    [][TurnCompleted(last')
          => messages' = messages \o
                 <<Message("user", Content(last'.arg, <<>>)),
                   Message("assistant", Content(ConcatParts(last'.out, 1), <<>>))>>]_vars

\* C12: the request of a turn is {user, currentContext()} followed by the
\* history as it stands after the user message was appended, so the new
\* user message is in it once, as its last message.
C12_RequestIsContextThenHistory ==
    [][(last'.op = "run" /\ last'.arg \in ChatLines)
          => request' = <<Message("user", ContextContent(Self))>>
                        \o Append(messages, Message("user", Content(last'.arg, <<>>)))]_vars

\* the call l, made in the current state, is one of the failing calls
FailingCall(l) ==
    \/ l.op = "remove_tracked_file" /\ ~Has(tracked_files, l.arg)
    \/ l.op = "track_file" /\ ~isfile(l.arg)
    \/ l.op = "create_lens" /\ Has(lenses, l.arg)
    \/ l.op = "switch_lens" /\ l.arg # s_none /\ ~Has(lenses, l.arg)
    \/ l.op = "add_file_to_lens" /\ (active_lens = <<>> \/ ~Has(tracked_files, l.arg))
    \/ l.op = "remove_file_from_lens" /\ (active_lens = <<>> \/ ~Has(ActiveLens, l.arg))

\* C13: every failing store call leaves the tracked set, the total, the
\* lenses, the active lens and the snapshot unchanged, and returns after
\* reporting one message.
C13_FailingCallsChangeNothing ==
    [][FailingCall(last')
          => /\ UNCHANGED <<tracked_files, total_tokens, lenses, active_lens, disk>>
             /\ Len(last'.out) = 1]_vars

\* createLens failed on an existing name while another lens state and a
\* snapshot were in place
C13_Witness ==
    /\ last.op = "create_lens"
    /\ Printed("Lens already exists")
    /\ active_lens # last.arg
    /\ disk # <<>>

\* the regular files under d with no hidden name on the way from d to them
Considered(d) ==
    {f \in Files :
        /\ startswith(f, abspath(d) \o <<"/">>)
        /\ LET rel == split(SliceFrom(f, Len(abspath(d)) + 1))
           IN \A i \in 1..Len(rel) : ~startswith(rel[i], <<".">>)}

\* the file read as c passes the per-file test
FitsPerFile(c) == c # ReadFails /\ c <= TOKEN_LIMIT_PER_FILE

RECURSIVE AbsFrom(_, _)
\* the files of the walk w from its i-th on, as absolute paths
AbsFrom(w, i) == IF i > Len(w) THEN <<>> ELSE <<abspath(w[i])>> \o AbsFrom(w, i + 1)

RECURSIVE BudgetUsedAt(_, _, _)
\* total_tokens when the walk (absolute paths wa) reaches its i-th file
BudgetUsedAt(wa, tokens, i) ==
    IF i = 1 THEN total_tokens
    ELSE LET before == BudgetUsedAt(wa, tokens, i - 1)
             c == tokens[wa[i - 1]]
         IN IF FitsPerFile(c) /\ before + c <= TOKEN_LIMIT THEN before + c ELSE before

\* the lines out, one per file of the walk (absolute paths wa), are those that
\* the reads tokens give
ReadsPrinted(wa, tokens, out) ==
    /\ Len(out) = Len(wa)
    /\ \A i \in 1..Len(wa) :
          LET c == tokens[wa[i]]
          IN /\ (out[i].msg = "Error processing") = (c = ReadFails)
             /\ (out[i].msg = "Skipping") = (c # ReadFails /\ c > TOKEN_LIMIT_PER_FILE)
             /\ out[i].msg = "Tracking file" => out[i].n = c

\* C14: trackDirectory considers every file that is not hidden and not under
\* a hidden directory, never aborts the walk, tracks each considered file
\* that is readable, within the per-file limit and within the budget left
\* (TOKEN_LIMIT - total_tokens) when it is reached, and leaves every other
\* entry as it was; the reads of the walk are those its printed lines report.
C14_TrackDirectoryWalk ==
    [][last'.op = "track_directory"
          => \A d \in {last'.arg} : \A w \in {walk(d)} : \A considered \in {Considered(d)} :
             \A wa \in {AbsFrom(w, 1)} : \A old \in {tracked_files} : \A new \in {tracked_files'} :
             LET reached == {w[i] : i \in 1..Len(w)}
             IN /\ {wa[i] : i \in 1..Len(wa)} = considered
                /\ \E tokens \in [considered -> Sizes \cup {ReadFails}] :
                      ReadsPrinted(wa, tokens, last'.out)
                /\ \A tokens \in [considered -> Sizes \cup {ReadFails}] :
                      (/\ ReadsPrinted(wa, tokens, last'.out)
                       /\ Becomes(track_directory(Self, d, tokens), "track_directory", d))
                      => /\ \A i \in 1..Len(w) :
                               LET c == tokens[wa[i]]
                               IN IF FitsPerFile(c)
                                     /\ BudgetUsedAt(wa, tokens, i) + c <= TOKEN_LIMIT
                                  THEN Has(new, w[i]) /\ Get(new, w[i]) = c
                                  ELSE /\ Has(new, w[i]) = Has(old, w[i])
                                       /\ Has(old, w[i]) => Get(new, w[i]) = Get(old, w[i])
                         /\ \A k \in KeySet(new) \ KeySet(old) :
                               /\ abspath(k) \in considered
                               /\ Get(new, k) <= TOKEN_LIMIT_PER_FILE
                         /\ \A k \in KeySet(old) \ reached :
                               Has(new, k) /\ Get(new, k) = Get(old, k)]_vars

\* a walk skipped a file over the per-file limit and tracked the next one
C14_Witness ==
    /\ last.op = "track_directory"
    /\ Len(last.out) = 2
    /\ last.out[1].msg = "Skipping"
    /\ last.out[2].msg = "Tracking file"

\* C15: createLens(name) on a name not yet present (the empty name and
\* "none" included) adds an empty lens and makes it active, so that
\* addFileToLens(p) on a tracked p then adds p to it and the context is built
\* from it.
C15_CreatedLensIsActive ==
    [][(last'.op = "create_lens" /\ ~Has(lenses, last'.arg))
          => \A name \in {last'.arg} :
             /\ Has(lenses', name)
             /\ Get(lenses', name) = <<>>
             /\ read_tracked_files(Self') = KeySeq(Get(lenses', name))
             /\ \A p \in KeySet(tracked_files') :
                   LET added == add_file_to_lens(Self', p)
                   IN /\ KeySeq(Get(added.lenses, name)) = <<p>>
                      /\ read_tracked_files(added) = <<p>>]_vars

\* C16: with persistence enabled, after every store operation the snapshot
\* file reproduces the tracked set, the lenses and the active lens in memory.
C16_SnapshotIsCurrent ==
    persist => \A fresh \in {init(TRUE, disk)} :
                   /\ fresh.tracked_files = tracked_files
                   /\ fresh.lenses = lenses
                   /\ fresh.active_lens = active_lens

\* with persistence on, a lens with a member was left by switchLens("none")
C16_Witness ==
    /\ persist
    /\ last.op = "switch_lens"
    /\ last.arg = s_none
    /\ tracked_files # <<>>
    /\ \E i \in 1..Len(lenses) : lenses[i].v # <<>>

\* the number printed on the line m of list()
Reported(out, m) == out[CHOOSE i \in 1..Len(out) : out[i].msg = m].n

\* C17: list() reports total_tokens as used and TOKEN_LIMIT - total_tokens as
\* remaining, and a track of an existing file of at most the reported
\* remaining tokens is accepted.
C17_ListReportsTrackBudget ==
    tracked_files # <<>> =>
        \A out \in {list_tracked_files(Self).out} :
           /\ Reported(out, "Total Tokens Used") = total_tokens
           /\ Reported(out, "Tokens Remaining") = TOKEN_LIMIT - total_tokens
           /\ \A filepath \in TrackPaths, c \in Sizes :
                 (isfile(filepath) /\ c <= Reported(out, "Tokens Remaining"))
                 => Has(track_file(Self, filepath, c).tracked_files, filepath)
                    /\ track_file(Self, filepath, c).total_tokens = total_tokens + c

\* C18: a file is tracked under its normalized path: no two entries of the
\* tracked set are spellings of the same file.
C18_OneEntryPerFile ==
    \A i, j \in 1..Len(tracked_files) :
        abspath(tracked_files[i].k) = abspath(tracked_files[j].k) => i = j

\* C19: the stored token counts of the files the context would include (the
\* members of the active lens when a lens is active, the tracked set
\* otherwise) sum to at most TOKEN_LIMIT.
C19_ContextWithinBudget ==
    \A ctx \in {read_tracked_files(Self)} :
        \A source \in {IF active_lens # <<>> THEN ActiveLens ELSE tracked_files} :
            /\ \A i \in 1..Len(ctx) : Has(source, ctx[i])
            /\ SumValues(SelectSeq(source, LAMBDA e : \E i \in 1..Len(ctx) : ctx[i] = e.k))
                  <= TOKEN_LIMIT

\* C20: the line "/list_lens " followed by a name n reports what
\* list_files_in_lens(n) reports (the members of lens n when it exists, "does
\* not exist" only when it is absent), and the bare line "/list_lens" reports
\* what list_files_in_current_lens reports.
C20_ListLensDispatch ==
    /\ \A n \in LensNames :
          \A out \in {run(Self, c_list_lens_sp \o n, NoEnv).out} :
             /\ Has(lenses, n) => out = list_files_in_lens(Self, n).out
             /\ (\E i \in 1..Len(out) : out[i].msg = "Lens does not exist")
                   <=> ~Has(lenses, n)
    /\ run(Self, c_list_lens, NoEnv).out = list_files_in_current_lens(Self).out

====
